---- MODULE Spec2Model ----
(***************************************************************************)
(* Model of go/vt/vttablet/tabletservermock/controller.go: the mock        *)
(* tabletserver.Controller.  Goroutines of the embedding test call the     *)
(* methods of one Controller concurrently.  A call is issued, waits in     *)
(* mu.Lock(), and then runs up to the next point where it can block: the   *)
(* channel send of SetServingType and BroadcastHealth (reached with mu     *)
(* held), or its return (the deferred mu.Unlock() included).               *)
(***************************************************************************)
EXTENDS Integers, Sequences, FiniteSets, TLC

(* ------------------------------------------------------------------ *)
(* Bounds of the model                                                   *)
(* ------------------------------------------------------------------ *)

\* Total number of method calls issued in one behaviour.
MaxCalls == 3

\* Total number of method calls issued in one behaviour of SpecFull.
MaxCallsFull == 12

\* Total number of method calls issued in one behaviour of SpecStall.
MaxCallsStall == 13

\* Total number of method calls issued in one behaviour of SpecTS.
MaxCallsTS == 3

\* Total number of method calls issued in one behaviour of SpecEvents.
MaxCallsEvents == 4

(* ------------------------------------------------------------------ *)
(* Program constants and input domains                                   *)
(* ------------------------------------------------------------------ *)

\* make(chan *BroadcastData, 10), make(chan *StateChange, 10)
ChanCap == 10

\* The goroutines of the test process that call the Controller.
Threads == {1, 2}

\* sync.Mutex: unlocked, or held by a goroutine.
NoHolder == 0

\* nil error, and the error a test injects through SetServingTypeError.
NilError == "nil"
Errors == {"ErrX"}

\* topodatapb.TabletType values used as inputs.
TabletTypes == {"PRIMARY", "REPLICA"}

\* querypb.Target values the callers build: the fields the Controller reads
\* or writes.  The two differ in every field.
TargetValues ==
    { [Keyspace |-> "ks", Shard |-> "0", TabletType |-> "REPLICA"],
      [Keyspace |-> "ks2", Shard |-> "-80", TabletType |-> "PRIMARY"] }

\* Pointers.  NilRef is the nil pointer; the others are addresses of
\* querypb.Target objects on the heap.
NilRef == 0
Addrs == 1 .. (Cardinality(Threads) + 3)

\* Where the allocator puts an object when that address is free: an object
\* a caller holds, and the two objects tqsc.target alternates between.
CallerAddr(t) == t
TargetAddrs == {Cardinality(Threads) + 1, Cardinality(Threads) + 2}

\* An optional Target value: << >> is "no Target" (behind a nil pointer),
\* <<v>> is the Target v.
NoTarget == << >>
Some(v) == <<v>>

\* rule sources and *rules.Rules values (NilRules is the nil pointer).
Sources == {"s1", "s2"}
NilRules == "nil"
RuleSets == {"r1", "r2"}

\* *topo.Server references a test may store in TS.
NilTS == "nil"
TopoServers == {"ts1"}

\* The methods of Controller.
LockedOps == {"InitDBConfig", "SetServingType", "IsServing", "CurrentTarget",
              "SetQueryRules", "BroadcastHealth", "EnterLameduck",
              "SetQueryServiceEnabledForTests", "GetQueryRules"}
LockFreeOps == {"Register", "AddStatusHeader", "AddStatusPart", "IsHealthy",
                "ReloadSchema", "ClearQueryPlanCache", "RegisterQueryRuleSource",
                "UnRegisterQueryRuleSource", "QueryService", "SchemaEngine",
                "TopoServer"}

VARIABLES
    \* ---- fields of Controller ----
    target,               \* tqsc.target: NilRef or the address of a Target
    heap,                 \* the querypb.Target objects, by address
    SetServingTypeError,  \* tqsc.SetServingTypeError
    TS,                   \* tqsc.TS
    mu,                   \* tqsc.mu: NoHolder or the goroutine holding it
    queryServiceEnabled,  \* tqsc.queryServiceEnabled
    isInLameduck,         \* tqsc.isInLameduck
    queryRulesMap,        \* tqsc.queryRulesMap: a function on the keys present
    StateChanges,         \* tqsc.StateChanges: the buffered channel's contents
    BroadcastData,        \* tqsc.BroadcastData: the buffered channel's contents
    \* ---- goroutines ----
    pc,                   \* where each goroutine is inside its call
    call,                 \* the method each goroutine is in, and its arguments
    local,                \* values a call has computed and not yet stored
    ret,                  \* the call that completed last, and its result
    held,                 \* the *Target the caller holds (argument or result)
    \* ---- history (not program state) ----
    ncalls,               \* number of calls issued so far
    sstOrder,             \* SetServingType calls, in the order they took mu
    scSent,               \* ids of the calls whose event was sent, in order
    scRecv,               \* StateChange events a consumer has received
    bhOrder,              \* number of BroadcastHealth calls that took mu
    bdSent,               \* ids of the BroadcastHealth calls that sent, in order
    bdRecv,               \* BroadcastData events a consumer has received
    entry,                \* per call: its number, and whether it was raced
    lastSST,              \* the last SetServingType made with no error set
    lastTransition        \* the later of EnterLameduck and SetServingType
                          \* to complete ("none", "EnterLameduck",
                          \* "SetServingType", or "SetServingTypeInLameduck"
                          \* for one that found isInLameduck set)

vars == <<target, heap, SetServingTypeError, TS, mu, queryServiceEnabled,
          isInLameduck, queryRulesMap, StateChanges, BroadcastData,
          pc, call, local, ret, held,
          ncalls, sstOrder, scSent, scRecv, bhOrder, bdSent, bdRecv, entry,
          lastSST, lastTransition>>

fields == <<target, heap, queryServiceEnabled, isInLameduck, queryRulesMap>>
chans == <<StateChanges, BroadcastData>>
history == <<sstOrder, scSent, scRecv, bhOrder, bdSent, bdRecv, lastTransition>>

(* ------------------------------------------------------------------ *)
(* Values                                                                *)
(* ------------------------------------------------------------------ *)

\* A goroutine that is in no call.
NoCall == [op |-> "none", tabletType |-> "none", serving |-> FALSE,
           targetArg |-> NoTarget, src |-> "none", rules |-> NilRules]

\* Optional Target values a caller passes to InitDBConfig.
TargetArgs == { Some(v) : v \in TargetValues } \cup {NoTarget}

\* The call that completed last: the call and its arguments, whether it
\* returned or panicked, and the result, with one field per result type of
\* the interface.
NoRet == [call |-> NoCall, outcome |-> "none", err |-> NilError,
          bool |-> FALSE, ref |-> NilRef, rules |-> NilRules, ts |-> NilTS]

\* What a call has read or computed and not yet stored or sent.
NoLocal == [err |-> NilError, data |-> FALSE]

\* History of a call in progress: its place among the calls of its method
\* that took mu, and whether SetServingTypeError was assigned between the
\* call's two reads of it.
NoEntry == [id |-> 0, raced |-> FALSE]

NoSST == [set |-> FALSE, tabletType |-> "none", serving |-> FALSE]

(* ------------------------------------------------------------------ *)
(* The heap of querypb.Target objects                                    *)
(* ------------------------------------------------------------------ *)

\* The heap is a function from the addresses in use to Target values.
\* The Target a pointer points to, as an optional value.
Deref(h, r) == IF r = NilRef THEN NoTarget ELSE Some(h[r])

\* The address a new object gets: any address not in use.  The model takes
\* the first free one of the addresses in want, if there is one.
Alloc(h, want) ==
    LET free == Addrs \ DOMAIN h
        pool == IF want \cap free # {} THEN want \cap free ELSE free
    IN CHOOSE a \in pool : \A b \in pool : a <= b

\* A new object holding the optional value o: nil for NoTarget.
New(h, o, want) ==
    IF o = NoTarget THEN [heap |-> h, ref |-> NilRef]
    ELSE [heap |-> (Alloc(h, want) :> o[1]) @@ h, ref |-> Alloc(h, want)]

\* Fault model: the pointer stored or returned as it is, with no copy made.
CloneAliases(h, r, want) == [heap |-> h, ref |-> r]

\* proto.Clone(m).(*querypb.Target): a new object with the fields of m, and
\* nil for a nil m.
Clone(h, r, want) == New(h, Deref(h, r), want)

\* Garbage collection: the objects no pointer of roots reaches are gone.
Collect(h, roots) == [a \in DOMAIN h \cap roots |-> h[a]]

Held(hd) == { hd[t] : t \in Threads }

\* The caller t lets go of the Target it held: the heap without it.
Dropped(t) == Collect(heap, {target} \cup Held([held EXCEPT ![t] = NilRef]))

(* ------------------------------------------------------------------ *)
(* NewController                                                         *)
(* ------------------------------------------------------------------ *)

Init ==
    /\ target = NilRef
    /\ heap = << >>
    /\ SetServingTypeError = NilError
    /\ TS = NilTS
    /\ mu = NoHolder
    /\ queryServiceEnabled = FALSE
    /\ isInLameduck = FALSE
    /\ queryRulesMap = << >>
    /\ StateChanges = << >>
    /\ BroadcastData = << >>
    /\ pc = [t \in Threads |-> "idle"]
    /\ call = [t \in Threads |-> NoCall]
    /\ local = [t \in Threads |-> NoLocal]
    /\ ret = NoRet
    /\ held = [t \in Threads |-> NilRef]
    /\ ncalls = 0
    /\ sstOrder = << >>
    /\ scSent = << >>
    /\ scRecv = << >>
    /\ bhOrder = 0
    /\ bdSent = << >>
    /\ bdRecv = << >>
    /\ entry = [t \in Threads |-> NoEntry]
    /\ lastSST = NoSST
    /\ lastTransition = "none"

(* ------------------------------------------------------------------ *)
(* Calls, the mutex and returns                                          *)
(* ------------------------------------------------------------------ *)

\* The stages of a call: "idle" (in no call), "lock" (issued, blocked in
\* mu.Lock()), "send" (holding mu, at the channel send).  A call that
\* returns or panics leaves its goroutine idle, mu released by the deferred
\* Unlock(), and its result in ret.
At(t, op, stage) == pc[t] = stage /\ call[t].op = op

Goto(t, stage) == pc' = [pc EXCEPT ![t] = stage]

\* The call c of goroutine t is over, with the result r.
Completes(t, c, r, how) ==
    /\ ret' = [r EXCEPT !.call = c, !.outcome = how]
    /\ pc' = [pc EXCEPT ![t] = "idle"]
    /\ call' = [call EXCEPT ![t] = NoCall]
    /\ local' = [local EXCEPT ![t] = NoLocal]

Returns(t, c, r) == Completes(t, c, r, "returned")

\* Fault model: the assignment through a nil pointer passing for a return.
PanicSwallowed(t, c) == Completes(t, c, NoRet, "returned")

Panics(t, c) == Completes(t, c, NoRet, "panicked")

\* Fault model: a Lock() that never excludes anybody.
MuNeverExcludes(t) == TRUE

\* sync.Mutex: Lock() returns only when no goroutine holds the mutex.
MuAvailable(t) == mu = NoHolder

\* A goroutine calls a method that takes mu while another goroutine holds
\* it: the call blocks in mu.Lock().  The arguments are drawn when the call
\* takes mu: nothing reads them earlier.
Invoke(t, op, limit) ==
    /\ pc[t] = "idle"
    /\ ncalls < limit
    /\ ~MuAvailable(t)
    /\ ncalls' = ncalls + 1
    /\ call' = [call EXCEPT ![t] = [NoCall EXCEPT !.op = op]]
    /\ Goto(t, "lock")
    /\ UNCHANGED <<fields, SetServingTypeError, TS, mu, chans, local, ret,
                   held, history, entry, lastSST>>

\* Fault model: a method body entered without waiting for mu.
LocksWithoutWaiting(t, op, limit) ==
    \/ At(t, op, "lock") /\ ncalls' = ncalls
    \/ pc[t] = "idle" /\ ncalls < limit /\ ncalls' = ncalls + 1

\* tqsc.mu.Lock() as the first statement of the method op: the goroutine
\* either was blocked in Lock() and mu is free now, or it calls the method
\* while mu is free and Lock() returns at once.
Locks(t, op, limit) ==
    /\ MuAvailable(t)
    /\ \/ At(t, op, "lock") /\ ncalls' = ncalls
       \/ pc[t] = "idle" /\ ncalls < limit /\ ncalls' = ncalls + 1

\* The call as its method sees it.
Call(op) == [NoCall EXCEPT !.op = op]

\* The method runs from Lock() to its return and the deferred Unlock()
\* without blocking in between.
LockedThroughout == mu' = NoHolder

\* Fault model: mu released before the channel send instead of by the
\* deferred Unlock().
ReleasedBeforeSend(t) == mu' = NoHolder

\* Lock() ... and the method blocks at a channel send with mu held.
StaysLocked(t) == mu' = t

\* Fault model: a return path that leaves mu locked.
UnlockForgotten(t) == mu' = t

\* defer tqsc.mu.Unlock().
Unlocks(t) == mu' = NoHolder

(* ------------------------------------------------------------------ *)
(* The methods that take mu                                              *)
(* ------------------------------------------------------------------ *)

\* InitDBConfig(target, ...): tqsc.target = proto.Clone(target); return nil.
\* o is the Target the caller built (NoTarget: the caller passes nil).
InitDBConfig(t, o, limit) ==
    /\ Locks(t, "InitDBConfig", limit)
    /\ LockedThroughout
    /\ LET arg == New(Dropped(t), o, {CallerAddr(t)})
           c == Clone(arg.heap, arg.ref, TargetAddrs)
       IN /\ held' = [held EXCEPT ![t] = arg.ref]
          /\ target' = c.ref
          /\ heap' = Collect(c.heap, {c.ref} \cup Held(held'))
    /\ Returns(t, [Call("InitDBConfig") EXCEPT !.targetArg = o], NoRet)
    /\ lastSST' = NoSST
    /\ UNCHANGED <<SetServingTypeError, TS, queryServiceEnabled, isInLameduck,
                   queryRulesMap, chans, history, entry>>

\* The event SetServingType sends.
StateChange(c) == [Serving |-> c.serving, TabletType |-> c.tabletType]

\* Fault model: the test of SetServingTypeError inverted.
UpdatesOnError(e) == e # NilError

\* Fault model: the test of SetServingTypeError dropped.
UpdatesAlways(e) == TRUE

\* The branch SetServingType takes on the value it read from
\* SetServingTypeError: it updates the state when there is no error.
Updates(e) == e = NilError

\* SetServingType(tabletType, terTime, serving, reason), from Lock() to the
\* channel send: with no injected error, tqsc.target.TabletType = tabletType
\* and tqsc.queryServiceEnabled = serving.  The assignment through a nil
\* tqsc.target panics: the deferred Unlock() runs and the panic reaches the
\* caller.
SetServingTypeUpdate(t, tabletType, serving, limit) ==
    LET c == [Call("SetServingType") EXCEPT !.tabletType = tabletType,
                                            !.serving = serving]
    IN
    /\ Locks(t, "SetServingType", limit)
    /\ sstOrder' = Append(sstOrder, StateChange(c))
    /\ IF Updates(SetServingTypeError) /\ target = NilRef
       THEN /\ Unlocks(t)
            /\ Panics(t, c)
            /\ UNCHANGED <<heap, queryServiceEnabled, lastSST, entry>>
       ELSE /\ StaysLocked(t)
            /\ Goto(t, "send")
            /\ call' = [call EXCEPT ![t] = c]
            /\ local' = [local EXCEPT ![t].err = SetServingTypeError]
            /\ entry' = [entry EXCEPT ![t] =
                            [id |-> Len(sstOrder) + 1, raced |-> FALSE]]
            /\ IF Updates(SetServingTypeError)
               THEN /\ heap' = [heap EXCEPT ![target].TabletType = tabletType]
                    /\ queryServiceEnabled' = serving
               ELSE UNCHANGED <<heap, queryServiceEnabled>>
            /\ lastSST' = IF SetServingTypeError = NilError
                          THEN [set |-> TRUE, tabletType |-> tabletType,
                                serving |-> serving]
                          ELSE lastSST
            /\ UNCHANGED ret
    /\ UNCHANGED <<target, SetServingTypeError, TS, isInLameduck,
                   queryRulesMap, chans, held, scSent, scRecv, bhOrder,
                   bdSent, bdRecv, lastTransition>>

\* Fault model: a channel that never takes an element.
HasRoomNever(ch) == FALSE

\* Fault model: a channel that takes one element more than its capacity.
HasRoomOffByOne(ch) == Len(ch) <= ChanCap

\* A send on a buffered channel proceeds only when the buffer has room.
HasRoom(ch) == Len(ch) < ChanCap

\* Fault model: lameduck left only by a transition to serving.
LameduckUnlessServing(serving) == ~serving

\* SetServingType: tqsc.isInLameduck = false, whatever serving is.
LameduckAfterSetServingType(serving) == FALSE

\* SetServingType: return tqsc.SetServingTypeError, e being the value the
\* field holds at the return statement.
SetServingTypeResult(e) == e

\* SetServingType, from the channel send to the return:
\* tqsc.StateChanges <- &StateChange{...}; tqsc.isInLameduck = false;
\* return tqsc.SetServingTypeError.
SetServingTypeSend(t) ==
    /\ At(t, "SetServingType", "send")
    /\ HasRoom(StateChanges)
    /\ StateChanges' = Append(StateChanges, StateChange(call[t]))
    /\ scSent' = Append(scSent, entry[t].id)
    /\ isInLameduck' = LameduckAfterSetServingType(call[t].serving)
    /\ lastTransition' = IF isInLameduck THEN "SetServingTypeInLameduck"
                          ELSE "SetServingType"
    /\ Returns(t, call[t],
               [NoRet EXCEPT !.err = SetServingTypeResult(SetServingTypeError)])
    /\ Unlocks(t)
    /\ entry' = [entry EXCEPT ![t] = NoEntry]
    /\ UNCHANGED <<target, heap, queryServiceEnabled, queryRulesMap,
                   SetServingTypeError, TS, BroadcastData, held, ncalls,
                   sstOrder, scRecv, bhOrder, bdSent, bdRecv, lastSST>>

\* Fault model: IsServing reading queryServiceEnabled without taking mu.
IsServingWithoutLock(t, limit) ==
    /\ \/ At(t, "IsServing", "lock") /\ ncalls' = ncalls
       \/ pc[t] = "idle" /\ ncalls < limit /\ ncalls' = ncalls + 1
    /\ mu' = mu
    /\ Returns(t, Call("IsServing"), [NoRet EXCEPT !.bool = queryServiceEnabled])
    /\ UNCHANGED <<fields, SetServingTypeError, TS, chans, held, history, entry, lastSST>>

\* IsServing: return tqsc.queryServiceEnabled.
IsServing(t, limit) ==
    /\ Locks(t, "IsServing", limit)
    /\ LockedThroughout
    /\ Returns(t, Call("IsServing"), [NoRet EXCEPT !.bool = queryServiceEnabled])
    /\ UNCHANGED <<fields, SetServingTypeError, TS, chans, held, history, entry, lastSST>>

\* Fault model: CurrentTarget returning tqsc.target itself.
CurrentTargetLive(t, limit) ==
    /\ Locks(t, "CurrentTarget", limit)
    /\ LockedThroughout
    /\ heap' = Dropped(t)
    /\ held' = [held EXCEPT ![t] = target]
    /\ Returns(t, Call("CurrentTarget"), [NoRet EXCEPT !.ref = target])
    /\ UNCHANGED <<target, queryServiceEnabled, isInLameduck, queryRulesMap,
                   SetServingTypeError, TS, chans, history, entry,
                   lastSST>>

\* CurrentTarget: return proto.Clone(tqsc.target).
CurrentTarget(t, limit) ==
    /\ Locks(t, "CurrentTarget", limit)
    /\ LockedThroughout
    /\ LET c == Clone(Dropped(t), target, {CallerAddr(t)})
       IN /\ heap' = c.heap
          /\ held' = [held EXCEPT ![t] = c.ref]
          /\ Returns(t, Call("CurrentTarget"), [NoRet EXCEPT !.ref = c.ref])
    /\ UNCHANGED <<target, queryServiceEnabled, isInLameduck, queryRulesMap,
                   SetServingTypeError, TS, chans, history, entry,
                   lastSST>>

\* Fault model: SetQueryRules replacing the map by one that holds only the
\* new entry.
SetQueryRulesAlone(t, ruleSource, qrs, limit) ==
    /\ Locks(t, "SetQueryRules", limit)
    /\ LockedThroughout
    /\ queryRulesMap' = (ruleSource :> qrs)
    /\ Returns(t, [Call("SetQueryRules") EXCEPT !.src = ruleSource, !.rules = qrs], NoRet)
    /\ UNCHANGED <<target, heap, queryServiceEnabled, isInLameduck,
                   SetServingTypeError, TS, chans, held, history,
                   entry, lastSST>>

\* SetQueryRules(ruleSource, qrs): tqsc.queryRulesMap[ruleSource] = qrs;
\* return nil.
SetQueryRules(t, ruleSource, qrs, limit) ==
    /\ Locks(t, "SetQueryRules", limit)
    /\ LockedThroughout
    /\ queryRulesMap' = (ruleSource :> qrs) @@ queryRulesMap
    /\ Returns(t, [Call("SetQueryRules") EXCEPT !.src = ruleSource, !.rules = qrs], NoRet)
    /\ UNCHANGED <<target, heap, queryServiceEnabled, isInLameduck,
                   SetServingTypeError, TS, chans, held, history,
                   entry, lastSST>>

\* GetQueryRules(ruleSource): return tqsc.queryRulesMap[ruleSource] (nil for
\* a key that is not in the map).
GetQueryRules(t, ruleSource, limit) ==
    /\ Locks(t, "GetQueryRules", limit)
    /\ LockedThroughout
    /\ Returns(t, [Call("GetQueryRules") EXCEPT !.src = ruleSource],
               [NoRet EXCEPT !.rules =
                   IF ruleSource \in DOMAIN queryRulesMap
                   THEN queryRulesMap[ruleSource] ELSE NilRules])
    /\ UNCHANGED <<fields, SetServingTypeError, TS, chans, held, history, entry, lastSST>>

\* Fault model: isInLameduck ignored by BroadcastHealth.
ServingIgnoringLameduck(enabled, lameduck) == enabled

\* The Serving field BroadcastHealth computes.
EffectiveServing(enabled, lameduck) == enabled /\ ~lameduck

\* BroadcastHealth, from Lock() to the channel send: the operand of the
\* send, &BroadcastData{Serving: ...}, is evaluated before the send.
BroadcastHealthEval(t, limit) ==
    /\ Locks(t, "BroadcastHealth", limit)
    /\ StaysLocked(t)
    /\ local' = [local EXCEPT ![t].data =
                    EffectiveServing(queryServiceEnabled, isInLameduck)]
    /\ bhOrder' = bhOrder + 1
    /\ entry' = [entry EXCEPT ![t] = [id |-> bhOrder + 1, raced |-> FALSE]]
    /\ Goto(t, "send")
    /\ call' = [call EXCEPT ![t] = Call("BroadcastHealth")]
    /\ UNCHANGED <<fields, SetServingTypeError, TS, chans, ret, held,
                   sstOrder, scSent, scRecv, bdSent, bdRecv, lastSST,
                   lastTransition>>

\* BroadcastHealth, from the channel send to the return:
\* tqsc.BroadcastData <- &BroadcastData{...}; the other fields of
\* BroadcastData keep their zero values.
BroadcastHealthSend(t) ==
    /\ At(t, "BroadcastHealth", "send")
    /\ HasRoom(BroadcastData)
    /\ BroadcastData' = Append(BroadcastData,
                               [TERTimestamp |-> 0, Serving |-> local[t].data])
    /\ bdSent' = Append(bdSent, entry[t].id)
    /\ Returns(t, call[t], NoRet)
    /\ Unlocks(t)
    /\ entry' = [entry EXCEPT ![t] = NoEntry]
    /\ UNCHANGED <<fields, SetServingTypeError, TS, StateChanges, held,
                   ncalls, sstOrder, scSent, scRecv, bhOrder, bdRecv, lastSST,
                   lastTransition>>

\* EnterLameduck: tqsc.isInLameduck = true.
EnterLameduck(t, limit) ==
    /\ Locks(t, "EnterLameduck", limit)
    /\ LockedThroughout
    /\ isInLameduck' = TRUE
    /\ lastTransition' = "EnterLameduck"
    /\ Returns(t, Call("EnterLameduck"), NoRet)
    /\ UNCHANGED <<target, heap, queryServiceEnabled, queryRulesMap,
                   SetServingTypeError, TS, chans, held, sstOrder, scSent,
                   scRecv, bhOrder, bdSent, bdRecv, entry, lastSST>>

\* Fault model: SetQueryServiceEnabledForTests leaving lameduck as
\* SetServingType does.
SetQueryServiceEnabledLeavingLameduck(t, enabled, limit) ==
    /\ Locks(t, "SetQueryServiceEnabledForTests", limit)
    /\ LockedThroughout
    /\ queryServiceEnabled' = enabled
    /\ isInLameduck' = FALSE
    /\ Returns(t, [Call("SetQueryServiceEnabledForTests") EXCEPT !.serving = enabled], NoRet)
    /\ lastSST' = NoSST
    /\ UNCHANGED <<target, heap, queryRulesMap,
                   SetServingTypeError, TS, chans, held, history,
                   entry>>

\* SetQueryServiceEnabledForTests(enabled): tqsc.queryServiceEnabled = enabled.
SetQueryServiceEnabledForTests(t, enabled, limit) ==
    /\ Locks(t, "SetQueryServiceEnabledForTests", limit)
    /\ LockedThroughout
    /\ queryServiceEnabled' = enabled
    /\ Returns(t, [Call("SetQueryServiceEnabledForTests") EXCEPT !.serving = enabled], NoRet)
    /\ lastSST' = NoSST
    /\ UNCHANGED <<target, heap, isInLameduck, queryRulesMap,
                   SetServingTypeError, TS, chans, held, history,
                   entry>>

(* ------------------------------------------------------------------ *)
(* The methods that do not take mu                                       *)
(* ------------------------------------------------------------------ *)

\* A method with no statement but (at most) a return: it runs in one step
\* and leaves every field alone.
LockFreeCall(t, op, r, limit) ==
    /\ pc[t] = "idle"
    /\ ncalls < limit
    /\ ncalls' = ncalls + 1
    /\ Returns(t, [NoCall EXCEPT !.op = op], r)
    /\ UNCHANGED <<fields, SetServingTypeError, TS, mu, chans, held, history,
                   entry, lastSST>>

Register(t, limit) == LockFreeCall(t, "Register", NoRet, limit)
AddStatusHeader(t, limit) == LockFreeCall(t, "AddStatusHeader", NoRet, limit)
AddStatusPart(t, limit) == LockFreeCall(t, "AddStatusPart", NoRet, limit)
\* IsHealthy: return nil.
IsHealthy(t, limit) == LockFreeCall(t, "IsHealthy", NoRet, limit)
\* ReloadSchema: return nil.
ReloadSchema(t, limit) == LockFreeCall(t, "ReloadSchema", NoRet, limit)
ClearQueryPlanCache(t, limit) == LockFreeCall(t, "ClearQueryPlanCache", NoRet, limit)
RegisterQueryRuleSource(t, limit) ==
    LockFreeCall(t, "RegisterQueryRuleSource", NoRet, limit)
UnRegisterQueryRuleSource(t, limit) ==
    LockFreeCall(t, "UnRegisterQueryRuleSource", NoRet, limit)
\* QueryService: return nil.
QueryService(t, limit) == LockFreeCall(t, "QueryService", NoRet, limit)
\* SchemaEngine: return nil.
SchemaEngine(t, limit) == LockFreeCall(t, "SchemaEngine", NoRet, limit)
\* Fault model: TopoServer returning nil whatever TS is.
TopoServerNil(t, limit) == LockFreeCall(t, "TopoServer", NoRet, limit)

\* TopoServer: return tqsc.TS.
TopoServer(t, limit) ==
    LockFreeCall(t, "TopoServer", [NoRet EXCEPT !.ts = TS], limit)

(* ------------------------------------------------------------------ *)
(* The test around the Controller                                        *)
(* ------------------------------------------------------------------ *)

\* The test assigns the exported field SetServingTypeError; it does so
\* without mu, at any moment.  A SetServingType call between its two reads
\* of the field is marked as raced.
SetError(e) ==
    /\ e # SetServingTypeError
    /\ SetServingTypeError' = e
    /\ entry' = [t \in Threads |->
                    IF At(t, "SetServingType", "send")
                    THEN [entry[t] EXCEPT !.raced = TRUE] ELSE entry[t]]
    /\ UNCHANGED <<fields, TS, mu, chans, pc, call, local, ret, held, ncalls,
                   history, lastSST>>

\* The test assigns the exported field TS.
SetTS(v) ==
    /\ v # TS
    /\ TS' = v
    /\ UNCHANGED <<fields, SetServingTypeError, mu, chans, pc, call, local,
                   ret, held, ncalls, history, entry, lastSST>>

\* The test receives from the StateChanges channel.
RecvStateChange ==
    /\ StateChanges # << >>
    /\ scRecv' = Append(scRecv, Head(StateChanges))
    /\ StateChanges' = Tail(StateChanges)
    /\ UNCHANGED <<fields, SetServingTypeError, TS, mu, BroadcastData, pc,
                   call, local, ret, held, ncalls, sstOrder, scSent, bhOrder,
                   bdSent, bdRecv, entry, lastSST,
                   lastTransition>>

\* The test receives from the BroadcastData channel.
RecvBroadcastData ==
    /\ BroadcastData # << >>
    /\ bdRecv' = Append(bdRecv, Head(BroadcastData))
    /\ BroadcastData' = Tail(BroadcastData)
    /\ UNCHANGED <<fields, SetServingTypeError, TS, mu, StateChanges, pc,
                   call, local, ret, held, ncalls, sstOrder, scSent, scRecv,
                   bhOrder, bdSent, entry, lastSST,
                   lastTransition>>

\* Between calls the caller writes to the Target it holds: the one it passed
\* to InitDBConfig or the one CurrentTarget returned.
Mutate(t, v) ==
    /\ pc[t] = "idle"
    /\ held[t] # NilRef
    /\ v # heap[held[t]]
    /\ heap' = [heap EXCEPT ![held[t]] = v]
    /\ UNCHANGED <<target, queryServiceEnabled, isInLameduck, queryRulesMap,
                   SetServingTypeError, TS, mu, chans, pc, call, local, ret,
                   held, ncalls, history, entry, lastSST>>

(* ------------------------------------------------------------------ *)
(* Specifications                                                        *)
(* ------------------------------------------------------------------ *)

Next ==
    \/ \E t \in Threads : \E op \in LockedOps : Invoke(t, op, MaxCalls)
    \/ \E t \in Threads : \E o \in TargetArgs : InitDBConfig(t, o, MaxCalls)
    \/ \E t \in Threads : \E tt \in TabletTypes : \E s \in BOOLEAN :
          SetServingTypeUpdate(t, tt, s, MaxCalls)
    \/ \E t \in Threads : SetServingTypeSend(t)
    \/ \E t \in Threads : IsServing(t, MaxCalls)
    \/ \E t \in Threads : CurrentTarget(t, MaxCalls)
    \/ \E t \in Threads : \E k \in Sources : \E r \in RuleSets : SetQueryRules(t, k, r, MaxCalls)
    \/ \E t \in Threads : \E k \in Sources : GetQueryRules(t, k, MaxCalls)
    \/ \E t \in Threads : BroadcastHealthEval(t, MaxCalls)
    \/ \E t \in Threads : BroadcastHealthSend(t)
    \/ \E t \in Threads : EnterLameduck(t, MaxCalls)
    \/ \E t \in Threads : \E s \in BOOLEAN : SetQueryServiceEnabledForTests(t, s, MaxCalls)
    \/ \E t \in Threads : Register(t, MaxCalls)
    \/ \E t \in Threads : AddStatusHeader(t, MaxCalls)
    \/ \E t \in Threads : AddStatusPart(t, MaxCalls)
    \/ \E t \in Threads : IsHealthy(t, MaxCalls)
    \/ \E t \in Threads : ReloadSchema(t, MaxCalls)
    \/ \E t \in Threads : ClearQueryPlanCache(t, MaxCalls)
    \/ \E t \in Threads : RegisterQueryRuleSource(t, MaxCalls)
    \/ \E t \in Threads : UnRegisterQueryRuleSource(t, MaxCalls)
    \/ \E t \in Threads : QueryService(t, MaxCalls)
    \/ \E t \in Threads : SchemaEngine(t, MaxCalls)
    \/ \E t \in Threads : TopoServer(t, MaxCalls)
    \/ \E e \in Errors \cup {NilError} : SetError(e)
    \/ RecvStateChange
    \/ RecvBroadcastData
    \/ \E t \in Threads : \E v \in TargetValues : Mutate(t, v)

Spec == Init /\ [][Next]_vars

\* The Controller under load: one configured Target, and enough calls of
\* the two methods that send to fill a channel.  Every SetServingType call
\* asks for (REPLICA, serving); the BroadcastData events differ with the
\* state each BroadcastHealth finds.  The tablet calls InitDBConfig once, as
\* it does at start-up; a SetServingType call made before that panics.
FullTarget == Some([Keyspace |-> "ks", Shard |-> "0", TabletType |-> "REPLICA"])

NextFull ==
    \/ \E t \in Threads : \E op \in {"SetServingType", "BroadcastHealth"} :
          Invoke(t, op, MaxCallsFull)
    \/ \E t \in Threads :
          target = NilRef /\ InitDBConfig(t, FullTarget, MaxCallsFull)
    \/ \E t \in Threads : SetServingTypeUpdate(t, "REPLICA", TRUE, MaxCallsFull)
    \/ \E t \in Threads : SetServingTypeSend(t)
    \/ \E t \in Threads : BroadcastHealthEval(t, MaxCallsFull)
    \/ \E t \in Threads : BroadcastHealthSend(t)
    \/ RecvStateChange
    \/ RecvBroadcastData

SpecFull == Init /\ [][NextFull]_vars

\* The Controller with a lazy consumer, which receives from a channel only
\* when it is full.  InitDBConfig is called once, SetServingType and
\* BroadcastHealth are called until a call finds its channel full; only
\* while that call waits at its send are the other methods called: those
\* that take mu block in Lock() and run when mu is free again (they are
\* never started with mu free: their call limit here is 0), the others run
\* at once.
StalledOn(t) ==
    \/ At(t, "SetServingType", "send") /\ ~HasRoom(StateChanges)
    \/ At(t, "BroadcastHealth", "send") /\ ~HasRoom(BroadcastData)

Stalled == \E t \in Threads : StalledOn(t)

NextStall ==
    \/ \E t \in Threads : \E op \in {"SetServingType", "BroadcastHealth"} :
          Invoke(t, op, MaxCallsStall)
    \/ \E t \in Threads : \E op \in LockedOps :
          Stalled /\ Invoke(t, op, MaxCallsStall)
    \/ \E t \in Threads :
          target = NilRef /\ InitDBConfig(t, FullTarget, MaxCallsStall)
    \/ \E t \in Threads : \E o \in TargetArgs : InitDBConfig(t, o, 0)
    \/ \E t \in Threads : SetServingTypeUpdate(t, "REPLICA", TRUE, MaxCallsStall)
    \/ \E t \in Threads : SetServingTypeSend(t)
    \/ \E t \in Threads : BroadcastHealthEval(t, MaxCallsStall)
    \/ \E t \in Threads : BroadcastHealthSend(t)
    \/ \E t \in Threads : IsServing(t, 0)
    \/ \E t \in Threads : CurrentTarget(t, 0)
    \/ \E t \in Threads : \E k \in Sources : \E r \in RuleSets : SetQueryRules(t, k, r, 0)
    \/ \E t \in Threads : \E k \in Sources : GetQueryRules(t, k, 0)
    \/ \E t \in Threads : EnterLameduck(t, 0)
    \/ \E t \in Threads : \E e \in BOOLEAN : SetQueryServiceEnabledForTests(t, e, 0)
    \/ \E t \in Threads : Stalled /\ Register(t, MaxCallsStall)
    \/ \E t \in Threads : Stalled /\ AddStatusHeader(t, MaxCallsStall)
    \/ \E t \in Threads : Stalled /\ AddStatusPart(t, MaxCallsStall)
    \/ \E t \in Threads : Stalled /\ IsHealthy(t, MaxCallsStall)
    \/ \E t \in Threads : Stalled /\ ReloadSchema(t, MaxCallsStall)
    \/ \E t \in Threads : Stalled /\ ClearQueryPlanCache(t, MaxCallsStall)
    \/ \E t \in Threads : Stalled /\ RegisterQueryRuleSource(t, MaxCallsStall)
    \/ \E t \in Threads : Stalled /\ UnRegisterQueryRuleSource(t, MaxCallsStall)
    \/ \E t \in Threads : Stalled /\ QueryService(t, MaxCallsStall)
    \/ \E t \in Threads : Stalled /\ SchemaEngine(t, MaxCallsStall)
    \/ \E t \in Threads : Stalled /\ TopoServer(t, MaxCallsStall)
    \/ ~HasRoom(StateChanges) /\ RecvStateChange
    \/ ~HasRoom(BroadcastData) /\ RecvBroadcastData

SpecStall == Init /\ [][NextStall]_vars

\* Scheduling: a goroutine that can leave Lock() or complete its send does
\* so (the Go scheduler runs every runnable goroutine, and a sync.Mutex
\* hands the lock to a goroutine that has waited long), and the consumer
\* receives from a channel that stays full.
Proceeds(t) == NextStall /\ pc[t] # "idle" /\ pc'[t] # pc[t]

Fairness ==
    /\ \A t \in Threads : WF_vars(Proceeds(t))
    /\ WF_vars(~HasRoom(StateChanges) /\ RecvStateChange)
    /\ WF_vars(~HasRoom(BroadcastData) /\ RecvBroadcastData)

SpecLive == Init /\ [][NextStall]_vars /\ Fairness

\* The Controller of a test that also assigns TS: the methods that do not
\* take mu, among calls of the methods that change the fields and send to
\* the channels.
NextTS ==
    \/ \E t \in Threads : \E op \in {"SetServingType", "BroadcastHealth"} :
          Invoke(t, op, MaxCallsTS)
    \/ \E t \in Threads : \E o \in TargetArgs : InitDBConfig(t, o, MaxCallsTS)
    \/ \E t \in Threads : \E tt \in TabletTypes : \E s \in BOOLEAN :
          SetServingTypeUpdate(t, tt, s, MaxCallsTS)
    \/ \E t \in Threads : SetServingTypeSend(t)
    \/ \E t \in Threads : \E k \in Sources : \E r \in RuleSets :
          SetQueryRules(t, k, r, MaxCallsTS)
    \/ \E t \in Threads : BroadcastHealthEval(t, MaxCallsTS)
    \/ \E t \in Threads : BroadcastHealthSend(t)
    \/ \E t \in Threads : EnterLameduck(t, MaxCallsTS)
    \/ \E t \in Threads : \E s \in BOOLEAN :
          SetQueryServiceEnabledForTests(t, s, MaxCallsTS)
    \/ \E t \in Threads : Register(t, MaxCallsTS)
    \/ \E t \in Threads : AddStatusHeader(t, MaxCallsTS)
    \/ \E t \in Threads : AddStatusPart(t, MaxCallsTS)
    \/ \E t \in Threads : IsHealthy(t, MaxCallsTS)
    \/ \E t \in Threads : ReloadSchema(t, MaxCallsTS)
    \/ \E t \in Threads : ClearQueryPlanCache(t, MaxCallsTS)
    \/ \E t \in Threads : RegisterQueryRuleSource(t, MaxCallsTS)
    \/ \E t \in Threads : UnRegisterQueryRuleSource(t, MaxCallsTS)
    \/ \E t \in Threads : QueryService(t, MaxCallsTS)
    \/ \E t \in Threads : SchemaEngine(t, MaxCallsTS)
    \/ \E t \in Threads : TopoServer(t, MaxCallsTS)
    \/ \E v \in TopoServers \cup {NilTS} : SetTS(v)
    \/ \E e \in Errors \cup {NilError} : SetError(e)

SpecTS == Init /\ [][NextTS]_vars

\* The Controller of a tablet that reports its state: InitDBConfig once,
\* then concurrent SetServingType calls with no error injected, with
\* IsServing and CurrentTarget calls and a consumer of StateChanges.
NextEvents ==
    \/ \E t \in Threads :
          \E op \in {"SetServingType", "IsServing", "CurrentTarget"} :
             Invoke(t, op, MaxCallsEvents)
    \/ \E t \in Threads : \E v \in TargetValues :
          target = NilRef /\ InitDBConfig(t, Some(v), MaxCallsEvents)
    \/ \E t \in Threads : \E tt \in TabletTypes : \E s \in BOOLEAN :
          target # NilRef /\ SetServingTypeUpdate(t, tt, s, MaxCallsEvents)
    \/ \E t \in Threads : SetServingTypeSend(t)
    \/ \E t \in Threads : IsServing(t, MaxCallsEvents)
    \/ \E t \in Threads : CurrentTarget(t, MaxCallsEvents)
    \/ RecvStateChange

SpecEvents == Init /\ [][NextEvents]_vars

(* ------------------------------------------------------------------ *)
(* Steps, as the properties below name them                              *)
(* ------------------------------------------------------------------ *)

Last(q) == q[Len(q)]

\* The Target tqsc.target points to, as an optional value.
TargetValue == Deref(heap, target)

\* Goroutine t takes mu for SetServingType and reaches the channel send.
SSTUpdateStep(t) ==
    pc[t] # "send" /\ pc'[t] = "send" /\ call'[t].op = "SetServingType"

\* Goroutine t sends its StateChange and returns from SetServingType.
SSTReturnStep(t) == At(t, "SetServingType", "send") /\ pc'[t] # "send"

\* Goroutine t takes mu for BroadcastHealth and reaches the channel send.
BHEvalStep(t) ==
    pc[t] # "send" /\ pc'[t] = "send" /\ call'[t].op = "BroadcastHealth"

\* Goroutine t sends its BroadcastData and returns from BroadcastHealth.
BHSendStep(t) == At(t, "BroadcastHealth", "send") /\ pc'[t] # "send"

\* Some call completes in this step (it returns or panics).
CompletionStep ==
    \/ \E t \in Threads : pc[t] # "idle" /\ pc'[t] = "idle"
    \/ ncalls' = ncalls + 1 /\ pc' = pc

\* A call of the method op completes in this step.
Completed(op) == CompletionStep /\ ret'.call.op = op

\* A step of the test around the Controller: no call starts, moves or ends.
TestStep == pc' = pc /\ ncalls' = ncalls

(* ------------------------------------------------------------------ *)
(* C1                                                                    *)
(* ------------------------------------------------------------------ *)

\* C1: after a SetServingType call made with no injected error returns,
\* the Target's TabletType and queryServiceEnabled are that call's
\* arguments; they stay so until the next SetServingType, InitDBConfig or
\* SetQueryServiceEnabledForTests, and IsServing and CurrentTarget return
\* them.
C1_LastSetServingTypeIsTheState ==
    [][ /\ \A t \in Threads :
             (SSTReturnStep(t) /\ local[t].err = NilError) =>
                 /\ target' # NilRef
                 /\ heap'[target'].TabletType = call[t].tabletType
                 /\ queryServiceEnabled' = call[t].serving
        /\ lastSST'.set =>
             /\ target' # NilRef
             /\ heap'[target'].TabletType = lastSST'.tabletType
             /\ queryServiceEnabled' = lastSST'.serving
        /\ (Completed("IsServing") /\ lastSST.set) =>
             /\ ret'.outcome = "returned"
             /\ ret'.bool = lastSST.serving
        /\ (Completed("CurrentTarget") /\ lastSST.set) =>
             /\ ret'.outcome = "returned"
             /\ ret'.ref # NilRef
             /\ heap'[ret'.ref].TabletType = lastSST.tabletType
      ]_vars

\* IsServing returned true after a SetServingType(PRIMARY, serving) that
\* returned nil on a Target configured as REPLICA.
C1_Witness ==
    /\ ret.call.op = "IsServing"
    /\ ret.bool = TRUE
    /\ lastSST = [set |-> TRUE, tabletType |-> "PRIMARY", serving |-> TRUE]
    /\ scSent = <<1>>
    /\ TargetValue = Some([Keyspace |-> "ks", Shard |-> "0",
                           TabletType |-> "PRIMARY"])

(* ------------------------------------------------------------------ *)
(* C2                                                                    *)
(* ------------------------------------------------------------------ *)

\* The SetServingType calls that have taken mu and are not at the channel
\* send any more, in the order they took mu.
SSTFinished ==
    IF \E t \in Threads : At(t, "SetServingType", "send")
    THEN SubSeq(sstOrder, 1, Len(sstOrder) - 1)
    ELSE sstOrder

\* C2: every SetServingType call has put exactly one event with its
\* tabletType and serving on StateChanges, in call order: the events
\* received and queued so far are those of the calls that are over.  A call
\* without an injected error on a Controller whose target is nil panics
\* before the send and breaks this.
C2_EveryCallEnqueuesOneEvent ==
    scRecv \o StateChanges = SSTFinished

\* A SetServingType call is over and StateChanges never got its event.
C2_Panicked ==
    /\ ret.call.op = "SetServingType"
    /\ ret.outcome = "panicked"
    /\ Len(sstOrder) = 1
    /\ scSent = << >>

(* ------------------------------------------------------------------ *)
(* C3                                                                    *)
(* ------------------------------------------------------------------ *)

\* C3: a SetServingType call that finds SetServingTypeError set changes
\* neither the Target nor queryServiceEnabled, from Lock() to return; it
\* still sends the event built from its arguments, clears isInLameduck and
\* returns the injected error (the value it read under the lock, unless the
\* test assigns the field while the call is at the send).
C3_InjectedErrorSkipsTheUpdate ==
    [][ \A t \in Threads :
          /\ (SSTUpdateStep(t) /\ SetServingTypeError # NilError) =>
                /\ target' = target
                /\ Deref(heap', target') = TargetValue
                /\ queryServiceEnabled' = queryServiceEnabled
                /\ local'[t].err = SetServingTypeError
          /\ (At(t, "SetServingType", "send") /\ local[t].err # NilError) =>
                /\ target' = target
                /\ Deref(heap', target') = TargetValue
                /\ queryServiceEnabled' = queryServiceEnabled
          /\ (SSTReturnStep(t) /\ local[t].err # NilError) =>
                /\ StateChanges' = Append(StateChanges, StateChange(call[t]))
                /\ isInLameduck' = FALSE
                /\ ret'.outcome = "returned"
                /\ ret'.err = SetServingTypeError
                /\ (~entry[t].raced => ret'.err = local[t].err)
      ]_vars

\* SetServingType(PRIMARY, serving) returned the injected error in lameduck:
\* the event is queued, lameduck is over, the Target is still the REPLICA
\* one InitDBConfig stored and the query service is still disabled.
C3_Witness ==
    /\ ret.call.op = "SetServingType"
    /\ ret.call.tabletType = "PRIMARY"
    /\ ret.call.serving = TRUE
    /\ ret.err = "ErrX"
    /\ lastTransition = "SetServingTypeInLameduck"
    /\ StateChanges = <<[TabletType |-> "PRIMARY", Serving |-> TRUE]>>
    /\ TargetValue = Some([Keyspace |-> "ks", Shard |-> "0",
                           TabletType |-> "REPLICA"])
    /\ queryServiceEnabled = FALSE
    /\ isInLameduck = FALSE

(* ------------------------------------------------------------------ *)
(* C4                                                                    *)
(* ------------------------------------------------------------------ *)

SSTTransitions == {"SetServingType", "SetServingTypeInLameduck"}

\* C4: when a SetServingType call returns isInLameduck is false, whatever
\* it was before and whether an error was injected or not; it stays false
\* until EnterLameduck, so a BroadcastHealth that follows sends
\* queryServiceEnabled as Serving.
C4_SetServingTypeLeavesLameduck ==
    [][ /\ \A t \in Threads : SSTReturnStep(t) => isInLameduck' = FALSE
        /\ lastTransition' \in SSTTransitions => isInLameduck' = FALSE
        /\ \A t \in Threads :
             (BHSendStep(t) /\ lastTransition \in SSTTransitions) =>
                 /\ Len(BroadcastData') = Len(BroadcastData) + 1
                 /\ Last(BroadcastData').Serving = queryServiceEnabled
      ]_vars

\* BroadcastHealth completed after a SetServingType that had found the
\* Controller in lameduck.
C4_Witness ==
    /\ lastTransition = "SetServingTypeInLameduck"
    /\ ret.call.op = "BroadcastHealth"
    /\ ret.outcome = "returned"
    /\ bdSent = <<1>>
    /\ isInLameduck = FALSE

(* ------------------------------------------------------------------ *)
(* C5                                                                    *)
(* ------------------------------------------------------------------ *)

\* C5: the event a BroadcastHealth call sends has Serving equal to
\* queryServiceEnabled AND NOT isInLameduck as the call found them (and as
\* they still are when it sends); Serving is false after EnterLameduck
\* until the next SetServingType, and false on a Controller on which
\* nothing else was called.
C5_ServingIsEnabledAndNotLameduck ==
    [][ \A t \in Threads :
          /\ BHEvalStep(t) =>
                local'[t].data = (queryServiceEnabled /\ ~isInLameduck)
          /\ BHSendStep(t) =>
                /\ BroadcastData' =
                       Append(BroadcastData,
                              [TERTimestamp |-> 0,
                               Serving |-> queryServiceEnabled /\ ~isInLameduck])
                /\ lastTransition = "EnterLameduck" =>
                       Last(BroadcastData').Serving = FALSE
                /\ ncalls = 1 => Last(BroadcastData').Serving = FALSE
      ]_vars

\* BroadcastHealth sent Serving = false from a Controller whose query
\* service is enabled and which is in lameduck.
C5_Witness ==
    /\ ret.call.op = "BroadcastHealth"
    /\ queryServiceEnabled = TRUE
    /\ isInLameduck = TRUE
    /\ lastTransition = "EnterLameduck"
    /\ BroadcastData = <<[TERTimestamp |-> 0, Serving |-> FALSE]>>

(* ------------------------------------------------------------------ *)
(* C6                                                                    *)
(* ------------------------------------------------------------------ *)

\* C6: every BroadcastHealth call appends exactly one event to
\* BroadcastData, the calls send in the order they took mu, and apart from
\* the receiver taking the head no step changes BroadcastData.
C6_OneBroadcastPerCallInOrder ==
    [][ /\ \/ BroadcastData' = BroadcastData
           \/ /\ \E t \in Threads : BHSendStep(t)
              /\ Len(BroadcastData') = Len(BroadcastData) + 1
              /\ SubSeq(BroadcastData', 1, Len(BroadcastData)) = BroadcastData
           \/ /\ TestStep
              /\ ret' = ret
              /\ BroadcastData # << >>
              /\ BroadcastData' = Tail(BroadcastData)
        /\ \A t \in Threads :
             BHSendStep(t) => Len(BroadcastData') = Len(BroadcastData) + 1
        /\ bdSent' = [i \in 1 .. Len(bdSent') |-> i]
        /\ Len(bdRecv') + Len(BroadcastData') = Len(bdSent')
        /\ bhOrder' = Len(bdSent')
              + Cardinality({t \in Threads :
                               pc'[t] = "send"
                               /\ call'[t].op = "BroadcastHealth"})
      ]_vars

\* Two BroadcastHealth calls with different results have sent; the first
\* event has been received and the second is queued.
C6_Witness ==
    /\ bdSent = <<1, 2>>
    /\ bdRecv = <<[TERTimestamp |-> 0, Serving |-> FALSE]>>
    /\ BroadcastData = <<[TERTimestamp |-> 0, Serving |-> TRUE]>>

(* ------------------------------------------------------------------ *)
(* C7                                                                    *)
(* ------------------------------------------------------------------ *)

\* C7 as stated: no goroutine holds mu while it is at a channel send.
C7_LockNotHeldAtSend ==
    \A t \in Threads : pc[t] = "send" => mu # t

\* C7: SetServingType and BroadcastHealth hold mu from Lock() until they
\* return, the channel send included, so a goroutine at a send holds mu;
\* the send is the only place where a goroutine waits with mu held, and no
\* other method holds mu at a point where it can wait.
C7_LockHeldAcrossSend ==
    /\ \A t \in Threads : pc[t] = "send" => mu = t
    /\ mu # NoHolder =>
          /\ pc[mu] = "send"
          /\ call[mu].op \in {"SetServingType", "BroadcastHealth"}

\* A goroutine is at the send of SetServingType holding mu while the other
\* one is blocked in Lock().
C7_Witness ==
    \E t \in Threads : \E u \in Threads \ {t} :
        /\ At(t, "SetServingType", "send")
        /\ mu = t
        /\ pc[u] = "lock"

(* ------------------------------------------------------------------ *)
(* C8                                                                    *)
(* ------------------------------------------------------------------ *)

\* A step changes the channel q' only by adding one element at the tail or
\* by the receiver taking the head.
QueueStep(q, qNext) ==
    \/ qNext = q
    \/ Len(qNext) = Len(q) + 1 /\ SubSeq(qNext, 1, Len(q)) = q
    \/ q # << >> /\ qNext = Tail(q) /\ TestStep

\* C8: StateChanges and BroadcastData never hold more than ChanCap events;
\* a call that finds its channel full stays at the send, adding nothing,
\* until the receiver takes an event; no queued event is lost or replaced.
C8_ChannelsHoldTen ==
    [][ /\ Len(StateChanges') <= ChanCap
        /\ Len(BroadcastData') <= ChanCap
        /\ QueueStep(StateChanges, StateChanges')
        /\ QueueStep(BroadcastData, BroadcastData')
        /\ Len(scRecv') + Len(StateChanges') = Len(scSent')
        /\ Len(bdRecv') + Len(BroadcastData') = Len(bdSent')
        /\ \A t \in Threads :
             /\ (At(t, "SetServingType", "send")
                   /\ Len(StateChanges) = ChanCap) =>
                   /\ pc'[t] = "send" /\ call'[t] = call[t]
                   /\ StateChanges' \in {StateChanges, Tail(StateChanges)}
             /\ (At(t, "BroadcastHealth", "send")
                   /\ Len(BroadcastData) = ChanCap) =>
                   /\ pc'[t] = "send" /\ call'[t] = call[t]
                   /\ BroadcastData' \in {BroadcastData, Tail(BroadcastData)}
      ]_vars

\* StateChanges holds ChanCap events, none received, and the next
\* SetServingType call is at the send.
C8_Witness ==
    /\ Len(StateChanges) = ChanCap
    /\ scRecv = << >>
    /\ \E t \in Threads : At(t, "SetServingType", "send")

(* ------------------------------------------------------------------ *)
(* C9                                                                    *)
(* ------------------------------------------------------------------ *)

\* C9: at most one goroutine is between Lock() and Unlock() of mu.  While
\* a goroutine is at the send of SetServingType or BroadcastHealth no call
\* of a method that takes mu starts its locked part or completes, so none
\* sees queryServiceEnabled updated and isInLameduck not yet cleared; mu is
\* free again whenever no goroutine is at a send, after a panic too.
C9_LockedMethodsExclude ==
    [][ /\ Cardinality({t \in Threads : pc'[t] = "send"}) <= 1
        /\ \A t \in Threads : pc'[t] = "send" => mu' = t
        /\ (\A t \in Threads : pc'[t] # "send") => mu' = NoHolder
        /\ \A t \in Threads :
             pc[t] = "send" =>
                /\ \A u \in Threads \ {t} :
                      /\ pc[u] = "lock" => pc'[u] = "lock"
                      /\ pc'[u] # "send"
                /\ (CompletionStep /\ ret'.call.op \in LockedOps) =>
                      /\ pc'[t] = "idle"
                      /\ ret'.call = call[t]
      ]_vars

\* SetServingType(serving) has enabled the query service and is at the send
\* with isInLameduck still set.
C9_Witness ==
    \E t \in Threads :
        /\ At(t, "SetServingType", "send")
        /\ local[t].err = NilError
        /\ call[t].serving = TRUE
        /\ queryServiceEnabled = TRUE
        /\ isInLameduck = TRUE

(* ------------------------------------------------------------------ *)
(* C10                                                                   *)
(* ------------------------------------------------------------------ *)

\* C10: the injected error is the only way a call fails.  Every call
\* returns; a SetServingType call returns the value of SetServingTypeError
\* (nil when none is injected; the value read under the lock unless the
\* test assigns the field during the send); every other method returns,
\* and those with an error result return nil.  A SetServingType call with
\* no injected error on a Controller whose target is nil does not return:
\* it panics, and breaks this.
C10_OnlyTheInjectedError ==
    [][ /\ CompletionStep => ret'.outcome = "returned"
        /\ \A t \in Threads :
             SSTReturnStep(t) =>
                /\ ret'.err = SetServingTypeError
                /\ (~entry[t].raced => ret'.err = local[t].err)
        /\ (CompletionStep /\ ret'.call.op # "SetServingType") =>
                /\ ret'.call.op \in LockedOps \cup LockFreeOps
                /\ ret'.err = NilError
      ]_vars

\* A SetServingType call has failed although no error is injected: it
\* panicked on the first call made on the Controller.
C10_FailedWithoutInjectedError ==
    /\ ret.call.op = "SetServingType"
    /\ ret.outcome = "panicked"
    /\ ret.err = NilError
    /\ SetServingTypeError = NilError
    /\ target = NilRef
    /\ ncalls = 1

(* ------------------------------------------------------------------ *)
(* C11                                                                   *)
(* ------------------------------------------------------------------ *)

\* What GetQueryRules(k) returns from the map m.
RulesOf(m, k) == IF k \in DOMAIN m THEN m[k] ELSE NilRules

\* C11: SetQueryRules(src, R) makes R the rules of src and leaves the rules
\* of every other source alone; no step that is not a SetQueryRules call
\* changes the map (RegisterQueryRuleSource and UnRegisterQueryRuleSource
\* included); GetQueryRules(src) returns the rules of src, nil for a source
\* no SetQueryRules call has named.
C11_RulesAreKeptPerSource ==
    [][ /\ Completed("SetQueryRules") =>
             /\ ret'.outcome = "returned"
             /\ RulesOf(queryRulesMap', ret'.call.src) = ret'.call.rules
             /\ \A k \in Sources \ {ret'.call.src} :
                   /\ RulesOf(queryRulesMap', k) = RulesOf(queryRulesMap, k)
                   /\ k \in DOMAIN queryRulesMap' <=> k \in DOMAIN queryRulesMap
        /\ ~Completed("SetQueryRules") => queryRulesMap' = queryRulesMap
        /\ Completed("GetQueryRules") =>
             /\ ret'.outcome = "returned"
             /\ ret'.rules = RulesOf(queryRulesMap, ret'.call.src)
             /\ ret'.call.src \notin DOMAIN queryRulesMap =>
                   ret'.rules = NilRules
      ]_vars

\* GetQueryRules("s1") returned the rules set for s1 after SetQueryRules
\* was called for s2 with other rules.
C11_Witness ==
    /\ ret.call.op = "GetQueryRules"
    /\ ret.call.src = "s1"
    /\ ret.rules = "r1"
    /\ queryRulesMap = [k \in Sources |-> IF k = "s1" THEN "r1" ELSE "r2"]

(* ------------------------------------------------------------------ *)
(* C12                                                                   *)
(* ------------------------------------------------------------------ *)

\* A caller writes to the Target it holds.
MutateStep == TestStep /\ heap' # heap

\* C12: CurrentTarget returns a new object with the fields of the internal
\* Target (nil for a nil one): it is neither the internal Target nor an
\* object another caller holds, and a caller writing to the Target it
\* holds leaves the internal Target, and so the result of the next
\* CurrentTarget, as it was.
C12_CurrentTargetIsACopy ==
    [][ /\ Completed("CurrentTarget") =>
             /\ ret'.outcome = "returned"
             /\ Deref(heap', ret'.ref) = TargetValue
             /\ target' = target
             /\ Deref(heap', target') = TargetValue
             /\ ret'.ref # NilRef =>
                   /\ ret'.ref # target'
                   /\ Cardinality({u \in Threads : held'[u] = ret'.ref}) = 1
        /\ \A t \in Threads :
             held'[t] # NilRef =>
                /\ held'[t] # target'
                /\ \A u \in Threads \ {t} : held'[u] # held'[t]
        /\ MutateStep =>
             /\ target' = target
             /\ Deref(heap', target') = TargetValue
      ]_vars

\* The last call to complete was CurrentTarget; its caller has since
\* written to the Target it got, which now differs from the internal one in
\* keyspace, shard and tablet type.
C12_Witness ==
    /\ \A t \in Threads : pc[t] = "idle"
    /\ ret.call.op = "CurrentTarget"
    /\ ret.ref # NilRef
    /\ \E u \in Threads : held[u] = ret.ref
    /\ target # NilRef
    /\ heap[ret.ref].Keyspace # heap[target].Keyspace
    /\ heap[ret.ref].Shard # heap[target].Shard
    /\ heap[ret.ref].TabletType # heap[target].TabletType

(* ------------------------------------------------------------------ *)
(* C13                                                                   *)
(* ------------------------------------------------------------------ *)

\* C13: SetQueryServiceEnabledForTests(enabled) stores enabled in
\* queryServiceEnabled and changes nothing else: not isInLameduck, not the
\* Target, not the rules, not the channels.  A BroadcastHealth call that
\* finds isInLameduck set sends Serving = false whatever
\* queryServiceEnabled is.
C13_OnlyTheFlagIsSet ==
    [][ /\ Completed("SetQueryServiceEnabledForTests") =>
             /\ ret'.outcome = "returned"
             /\ queryServiceEnabled' = ret'.call.serving
             /\ isInLameduck' = isInLameduck
             /\ target' = target
             /\ Deref(heap', target') = TargetValue
             /\ queryRulesMap' = queryRulesMap
             /\ StateChanges' = StateChanges
             /\ BroadcastData' = BroadcastData
             /\ sstOrder' = sstOrder
             /\ scSent' = scSent
             /\ bdSent' = bdSent
        /\ \A t \in Threads :
             /\ (BHEvalStep(t) /\ isInLameduck) => local'[t].data = FALSE
             /\ (BHSendStep(t) /\ isInLameduck) =>
                   /\ Len(BroadcastData') = Len(BroadcastData) + 1
                   /\ Last(BroadcastData').Serving = FALSE
      ]_vars

\* After EnterLameduck and SetQueryServiceEnabledForTests(true) a
\* BroadcastHealth call is at its send with Serving = false.
C13_Witness ==
    /\ ret.call.op = "SetQueryServiceEnabledForTests"
    /\ ret.call.serving = TRUE
    /\ queryServiceEnabled = TRUE
    /\ isInLameduck = TRUE
    /\ lastTransition = "EnterLameduck"
    /\ StateChanges = << >>
    /\ \E t \in Threads :
          At(t, "BroadcastHealth", "send") /\ local[t].data = FALSE

(* ------------------------------------------------------------------ *)
(* C14                                                                   *)
(* ------------------------------------------------------------------ *)

\* C14: InitDBConfig(target) returns nil and leaves tqsc.target pointing
\* to a new object with exactly the fields of the argument (nil for a nil
\* argument), which no caller holds, so a caller writing to its Target
\* afterwards does not change it; queryServiceEnabled, isInLameduck, the
\* rules and the channels are left alone.
C14_InitDBConfigStoresACopy ==
    [][ /\ Completed("InitDBConfig") =>
             /\ ret'.outcome = "returned"
             /\ ret'.err = NilError
             /\ Deref(heap', target') = ret'.call.targetArg
             /\ target' # NilRef => target' \notin Held(held')
             /\ queryServiceEnabled' = queryServiceEnabled
             /\ isInLameduck' = isInLameduck
             /\ queryRulesMap' = queryRulesMap
             /\ StateChanges' = StateChanges
             /\ BroadcastData' = BroadcastData
        /\ \A t \in Threads :
             (MutateStep /\ held[t] # NilRef /\ heap'[held[t]] # heap[held[t]]) =>
                /\ target' = target
                /\ held[t] # target
                /\ Deref(heap', target') = TargetValue
      ]_vars

\* InitDBConfig was the last call to complete, on a Controller whose query
\* service is enabled; its caller, the only one to hold a Target, has since
\* written to the Target it passed, and the internal Target still has the
\* fields passed.
C14_Witness ==
    /\ \A t \in Threads : pc[t] = "idle"
    /\ ret.call.op = "InitDBConfig"
    /\ ret.call.targetArg = Some([Keyspace |-> "ks2", Shard |-> "-80",
                                  TabletType |-> "PRIMARY"])
    /\ TargetValue = ret.call.targetArg
    /\ queryServiceEnabled = TRUE
    /\ \E u \in Threads :
          /\ held[u] # NilRef
          /\ \A v \in Threads \ {u} : held[v] = NilRef
          /\ Some(heap[held[u]]) # ret.call.targetArg

(* ------------------------------------------------------------------ *)
(* C16                                                                   *)
(* ------------------------------------------------------------------ *)

\* Goroutine u can call every method that does not take mu, and the call
\* completes at once.
LockFreeEnabled(u, limit) ==
    /\ ENABLED Register(u, limit)
    /\ ENABLED AddStatusHeader(u, limit)
    /\ ENABLED AddStatusPart(u, limit)
    /\ ENABLED IsHealthy(u, limit)
    /\ ENABLED ReloadSchema(u, limit)
    /\ ENABLED ClearQueryPlanCache(u, limit)
    /\ ENABLED RegisterQueryRuleSource(u, limit)
    /\ ENABLED UnRegisterQueryRuleSource(u, limit)
    /\ ENABLED QueryService(u, limit)
    /\ ENABLED SchemaEngine(u, limit)
    /\ ENABLED TopoServer(u, limit)

\* C16: while a SetServingType or BroadcastHealth call waits at its send
\* on a full channel it holds mu: no call of a method that takes mu
\* completes or leaves Lock(), no field that mu protects changes and
\* nothing is sent to the other channel; the wait ends only by the consumer
\* receiving from the full channel.  The methods that do not take mu can
\* still be called and complete.
C16_StalledSendBlocksLockedMethods ==
    [][ \A t \in Threads :
          StalledOn(t) =>
             /\ mu = t /\ mu' = t
             /\ pc'[t] = "send" /\ call'[t] = call[t]
             /\ ~(CompletionStep /\ ret'.call.op \in LockedOps)
             /\ \A u \in Threads \ {t} :
                   /\ pc[u] = "lock" => (pc'[u] = "lock" /\ call'[u] = call[u])
                   /\ pc'[u] # "send"
                   /\ (pc[u] = "idle" /\ ncalls < MaxCallsStall) =>
                         LockFreeEnabled(u, MaxCallsStall)
             /\ <<target, heap, queryServiceEnabled, isInLameduck,
                  queryRulesMap>>' =
                <<target, heap, queryServiceEnabled, isInLameduck,
                  queryRulesMap>>
             /\ Len(StateChanges') <= Len(StateChanges)
             /\ Len(BroadcastData') <= Len(BroadcastData)
             /\ ~StalledOn(t)' =>
                   /\ TestStep
                   /\ \/ /\ call[t].op = "SetServingType"
                         /\ StateChanges' = Tail(StateChanges)
                      \/ /\ call[t].op = "BroadcastHealth"
                         /\ BroadcastData' = Tail(BroadcastData)
      ]_vars

\* A BroadcastHealth call waits on the full BroadcastData channel, the
\* other goroutine has meanwhile called IsHealthy, which returned, and then
\* IsServing, which is blocked in Lock().
C16_Witness ==
    \E t \in Threads : \E u \in Threads \ {t} :
        /\ At(t, "BroadcastHealth", "send")
        /\ Len(BroadcastData) = ChanCap
        /\ ret.call.op = "IsHealthy"
        /\ ret.outcome = "returned"
        /\ At(u, "IsServing", "lock")

(* ------------------------------------------------------------------ *)
(* C15                                                                   *)
(* ------------------------------------------------------------------ *)

\* C15: with a consumer that receives from a channel that stays full, and
\* goroutines that run when they can, every call returns: a
\* SetServingType or BroadcastHealth call waiting at its send on a full
\* channel sends and returns, and a call blocked in Lock() takes mu and
\* returns.
C15_EveryCallReturns ==
    \A t \in Threads : (pc[t] # "idle") ~> (pc[t] = "idle")

\* A SetServingType call waits on the full StateChanges channel while the
\* other goroutine's BroadcastHealth call is blocked in Lock().
C15_Witness ==
    \E t \in Threads : \E u \in Threads \ {t} :
        /\ StalledOn(t)
        /\ call[t].op = "SetServingType"
        /\ scRecv = << >>
        /\ At(u, "BroadcastHealth", "lock")

(* ------------------------------------------------------------------ *)
(* C17                                                                   *)
(* ------------------------------------------------------------------ *)

\* C17: a call of Register, AddStatusHeader, AddStatusPart, IsHealthy,
\* ReloadSchema, ClearQueryPlanCache, RegisterQueryRuleSource,
\* UnRegisterQueryRuleSource, QueryService, SchemaEngine or TopoServer
\* returns without changing the Target, queryServiceEnabled, isInLameduck,
\* the rules, the channels, mu or the exported fields; the error and the
\* handle it returns are nil, except that TopoServer returns TS.
C17_LockFreeMethodsChangeNothing ==
    [][ (CompletionStep /\ ret'.call.op \in LockFreeOps) =>
          /\ ret'.outcome = "returned"
          /\ ret'.err = NilError
          /\ ret'.ref = NilRef
          /\ ret'.rules = NilRules
          /\ ret'.bool = FALSE
          /\ ret'.ts = IF ret'.call.op = "TopoServer" THEN TS ELSE NilTS
          /\ <<target, heap, queryServiceEnabled, isInLameduck,
               queryRulesMap>>' =
             <<target, heap, queryServiceEnabled, isInLameduck, queryRulesMap>>
          /\ StateChanges' = StateChanges
          /\ BroadcastData' = BroadcastData
          /\ mu' = mu
          /\ TS' = TS
          /\ SetServingTypeError' = SetServingTypeError
      ]_vars

\* TopoServer returned the TS the test had assigned, on a Controller with a
\* Target, in lameduck and with an event in BroadcastData.
C17_Witness ==
    /\ ret.call.op = "TopoServer"
    /\ ret.ts = "ts1"
    /\ TS = "ts1"
    /\ isInLameduck = TRUE
    /\ Len(BroadcastData) = 1
    /\ ncalls = 3

(* ------------------------------------------------------------------ *)
(* C18                                                                   *)
(* ------------------------------------------------------------------ *)

\* A SetServingType call takes mu in this step.
SSTLockStep == Len(sstOrder') = Len(sstOrder) + 1

\* C18: a SetServingType call that finds tqsc.target nil and no injected
\* error panics at the assignment to the Target: it sends no event, leaves
\* queryServiceEnabled and isInLameduck as they were and leaves mu free.
\* With an injected error the call on a nil Target goes on to its send,
\* sends the event of its arguments, clears isInLameduck and returns the
\* error.
C18_NilTargetPanics ==
    [][ /\ (SSTLockStep /\ target = NilRef
               /\ SetServingTypeError = NilError) =>
             /\ Completed("SetServingType")
             /\ ret'.outcome = "panicked"
             /\ StateChanges' = StateChanges
             /\ scSent' = scSent
             /\ target' = NilRef
             /\ queryServiceEnabled' = queryServiceEnabled
             /\ isInLameduck' = isInLameduck
             /\ mu' = NoHolder
             /\ \A t \in Threads : pc'[t] # "send"
        /\ (Completed("SetServingType") /\ ret'.outcome = "panicked") =>
             /\ SSTLockStep
             /\ target = NilRef
             /\ SetServingTypeError = NilError
        /\ (SSTLockStep /\ target = NilRef
               /\ SetServingTypeError # NilError) =>
             \E t \in Threads :
                /\ SSTUpdateStep(t)
                /\ local'[t].err = SetServingTypeError
                /\ mu' = t
        /\ \A t \in Threads :
             (SSTReturnStep(t) /\ target = NilRef) =>
                /\ local[t].err # NilError
                /\ StateChanges' = Append(StateChanges, StateChange(call[t]))
                /\ isInLameduck' = FALSE
                /\ queryServiceEnabled' = queryServiceEnabled
                /\ target' = NilRef
                /\ ret'.outcome = "returned"
                /\ (~entry[t].raced => ret'.err = local[t].err)
                /\ mu' = NoHolder
      ]_vars

\* On a Controller in lameduck and without a Target a SetServingType call
\* has panicked: no event was sent, the Controller is still in lameduck and
\* an IsServing call made afterwards has returned.
C18_Witness ==
    /\ \A t \in Threads : pc[t] = "idle"
    /\ ret.call.op = "IsServing"
    /\ ret.outcome = "returned"
    /\ target = NilRef
    /\ Len(sstOrder) = 1
    /\ scSent = << >>
    /\ isInLameduck = TRUE
    /\ mu = NoHolder

(* ------------------------------------------------------------------ *)
(* C19                                                                   *)
(* ------------------------------------------------------------------ *)

\* C19: a SetServingType call returns nil exactly when it updated the
\* Target and queryServiceEnabled, that is, when it read
\* SetServingTypeError as nil under the lock.  The field is read again for
\* the return, and a test that assigns it between the two reads breaks
\* this.
C19_ReturnAgreesWithUpdate ==
    [][ \A t \in Threads :
          SSTReturnStep(t) =>
             (ret'.err = NilError <=> local[t].err = NilError)
      ]_vars

\* The only SetServingType call made has updated the Target and
\* queryServiceEnabled and has returned an error.
C19_UpdatedAndFailed ==
    /\ \A t \in Threads : pc[t] = "idle"
    /\ ret.call.op = "SetServingType"
    /\ ret.outcome = "returned"
    /\ ret.err # NilError
    /\ Len(sstOrder) = 1
    /\ lastSST = [set |-> TRUE, tabletType |-> ret.call.tabletType,
                  serving |-> ret.call.serving]
    /\ queryServiceEnabled = TRUE

(* ------------------------------------------------------------------ *)
(* C20                                                                   *)
(* ------------------------------------------------------------------ *)

\* The StateChange event sent last.
LastEvent(recv, queue) == Last(recv \o queue)

\* C20: with no error injected and no InitDBConfig or
\* SetQueryServiceEnabledForTests after the first SetServingType, whenever
\* no SetServingType call is between Lock() and return the event sent last
\* has the Serving of queryServiceEnabled and the TabletType of the Target,
\* and these are what IsServing and CurrentTarget return: the events are
\* sent in the order in which the calls updated the fields.
C20_LastEventIsTheState ==
    [][ /\ ((\A t \in Threads : pc'[t] # "send") /\ scSent' # << >>) =>
             /\ LastEvent(scRecv', StateChanges').Serving = queryServiceEnabled'
             /\ LastEvent(scRecv', StateChanges').TabletType =
                   heap'[target'].TabletType
        /\ (Completed("IsServing") /\ scSent # << >>) =>
             ret'.bool = LastEvent(scRecv, StateChanges).Serving
        /\ (Completed("CurrentTarget") /\ scSent # << >>) =>
             heap'[ret'.ref].TabletType =
                LastEvent(scRecv, StateChanges).TabletType
        /\ scSent' = [i \in 1 .. Len(scSent') |-> i]
        /\ scRecv' \o StateChanges' = SubSeq(sstOrder', 1, Len(scSent'))
      ]_vars

\* Two SetServingType calls with different arguments have returned, the
\* first event has been received, and IsServing has returned the Serving of
\* the second one.
C20_Witness ==
    /\ \A t \in Threads : pc[t] = "idle"
    /\ scSent = <<1, 2>>
    /\ scRecv = <<[Serving |-> TRUE, TabletType |-> "PRIMARY"]>>
    /\ StateChanges = <<[Serving |-> FALSE, TabletType |-> "REPLICA"]>>
    /\ ret.call.op = "IsServing"
    /\ ret.bool = FALSE

====
